---- MODULE Spec2Model ----
(***************************************************************************)
(* Model of the time-elapsed crate (src/src/lib.rs): the duration          *)
(* formatter (get_unit_of_measurement, get_units_of_measurement,           *)
(* nanos_to_unit_of_msr, nanos_to_units_of_msr) and the TimeElapsed        *)
(* handle (new, timestamp, log, log_overall, end).                         *)
(*                                                                         *)
(* Nanosecond counts are u128 in the source and exceed the range of TLC's  *)
(* integers (15_000_000_000 already does), so a count is held as two       *)
(* limbs <<hi, lo>> of value hi * Base + lo with 0 <= lo < Base and        *)
(* Base = 10^6.  Every divisor of the source is either below Base or a     *)
(* multiple of Base, and Div is exact integer division on that encoding.   *)
(* The unit the source spells "μs" is written "us" here.                   *)
(***************************************************************************)
EXTENDS Integers, Sequences, FiniteSets, TLC

VARIABLES
    clock,            \* the monotonic clock read by Instant::now()
    state,            \* "NotStarted" | "Active" | "Ended" (ownership of the handle)
    name,             \* TimeElapsed.name
    start_timestamp,  \* TimeElapsed.start_timestamp
    last_timestamp,   \* TimeElapsed.last_timestamp
    out,              \* effect of the most recent operation: the line printed / value returned
    reference,        \* history: the instant captured for last_timestamp by new() or timestamp()
    ticks             \* number of clock advances so far (bounds the exploration)

vars == <<clock, state, name, start_timestamp, last_timestamp, out, reference, ticks>>

-----------------------------------------------------------------------------
(* Bounds *)

MaxTicks == 3
MaxOffset == 2

-----------------------------------------------------------------------------
(* u128 arithmetic on two limbs *)

Base == 1000 * 1000

U(hi, lo) == <<hi, lo>>

Zero == U(0, 0)

Lt(a, b) == a[1] < b[1] \/ (a[1] = b[1] /\ a[2] < b[2])

Leq(a, b) == a = b \/ Lt(a, b)

Add(a, b) ==
    LET s == a[2] + b[2]
    IN  U(a[1] + b[1] + (s \div Base), s % Base)

\* Instant - Instant (Instant::elapsed / duration_since): zero when b is later than a
Sub(a, b) ==
    IF Lt(a, b) THEN Zero
    ELSE IF a[2] >= b[2] THEN U(a[1] - b[1], a[2] - b[2])
         ELSE U(a[1] - b[1] - 1, a[2] + Base - b[2])

\* nanos / d, truncating, for d < Base (long division over the two limbs)
\* or d a multiple of Base
Div(n, d) ==
    IF d[1] = 0
    THEN LET r == n[1] % d[2]
         IN  U(n[1] \div d[2], (r * Base + n[2]) \div d[2])
    ELSE LET q == n[1] \div d[1]
         IN  U(q \div Base, q % Base)

-----------------------------------------------------------------------------
(* Duration formatter *)

\* faulty variant: the first threshold "tidied" to one millisecond
get_unit_of_measurement_1ms(nanos) ==
    IF Div(nanos, U(1, 0)) = Zero THEN "us"
    ELSE IF Div(nanos, U(15000, 0)) = Zero THEN "ms"
    ELSE IF Div(nanos, U(300000, 0)) = Zero THEN "s"
    ELSE IF Div(nanos, U(540000, 0)) = Zero THEN "min"
    ELSE "hrs"

get_unit_of_measurement(nanos) ==
    IF Div(nanos, U(4, 0)) = Zero THEN "us"                  \* nanos / 4000000
    ELSE IF Div(nanos, U(15000, 0)) = Zero THEN "ms"         \* nanos / 15000000000
    ELSE IF Div(nanos, U(300000, 0)) = Zero THEN "s"         \* nanos / 300000000000
    ELSE IF Div(nanos, U(540000, 0)) = Zero THEN "min"       \* nanos / 540000000000
    ELSE "hrs"

get_units_of_measurement(nanos) ==
    LET u == get_unit_of_measurement(nanos)
    IN  CASE u = "us"  -> <<"us", "ns">>
          [] u = "ms"  -> <<"ms", "us">>
          [] u = "s"   -> <<"s", "ms">>
          [] u = "min" -> <<"min", "s">>
          [] u = "hrs" -> <<"hrs", "min">>
          [] OTHER     -> <<"ns", "ns">>

nanos_to_unit_of_msr(nanos, unit_of_msr) ==
    CASE unit_of_msr = "us"  -> Div(nanos, U(0, 1000))       \* nanos / 1000
      [] unit_of_msr = "ms"  -> Div(nanos, U(1, 0))          \* nanos / 1000000
      [] unit_of_msr = "s"   -> Div(nanos, U(1000, 0))       \* nanos / 1000000000
      [] unit_of_msr = "min" -> Div(nanos, U(60000, 0))      \* nanos / 60000000000
      [] unit_of_msr = "hrs" -> Div(nanos, U(3600000, 0))    \* nanos / 3600000000000
      [] OTHER               -> nanos

\* faulty variant: the fine value of "s" taken in microseconds
nanos_to_units_of_msr_fine_us(nanos, unit_of_msr) ==
    CASE unit_of_msr = "us"  -> <<Div(nanos, U(0, 1000)), nanos>>
      [] unit_of_msr = "ms"  -> <<Div(nanos, U(1, 0)), Div(nanos, U(0, 1000))>>
      [] unit_of_msr = "s"   -> <<Div(nanos, U(1000, 0)), Div(nanos, U(0, 1000))>>
      [] unit_of_msr = "min" -> <<Div(nanos, U(60000, 0)), Div(nanos, U(1000, 0))>>
      [] unit_of_msr = "hrs" -> <<Div(nanos, U(3600000, 0)), Div(nanos, U(60000, 0))>>
      [] OTHER               -> <<nanos, nanos>>

\* faulty variant: the coarse microsecond value rounded to nearest, not truncated
nanos_to_units_of_msr_rounding(nanos, unit_of_msr) ==
    CASE unit_of_msr = "us"  -> <<Div(Add(nanos, U(0, 500)), U(0, 1000)), nanos>>
      [] unit_of_msr = "ms"  -> <<Div(nanos, U(1, 0)), Div(nanos, U(0, 1000))>>
      [] unit_of_msr = "s"   -> <<Div(nanos, U(1000, 0)), Div(nanos, U(1, 0))>>
      [] unit_of_msr = "min" -> <<Div(nanos, U(60000, 0)), Div(nanos, U(1000, 0))>>
      [] unit_of_msr = "hrs" -> <<Div(nanos, U(3600000, 0)), Div(nanos, U(60000, 0))>>
      [] OTHER               -> <<nanos, nanos>>

nanos_to_units_of_msr(nanos, unit_of_msr) ==
    CASE unit_of_msr = "us"  -> <<Div(nanos, U(0, 1000)), nanos>>
      [] unit_of_msr = "ms"  -> <<Div(nanos, U(1, 0)), Div(nanos, U(0, 1000))>>
      [] unit_of_msr = "s"   -> <<Div(nanos, U(1000, 0)), Div(nanos, U(1, 0))>>
      [] unit_of_msr = "min" -> <<Div(nanos, U(60000, 0)), Div(nanos, U(1000, 0))>>
      [] unit_of_msr = "hrs" -> <<Div(nanos, U(3600000, 0)), Div(nanos, U(60000, 0))>>
      [] OTHER               -> <<nanos, nanos>>

-----------------------------------------------------------------------------
(* Inputs *)

Names == {"test", ""}

Msgs == {"a", "b"}

\* clock advances between operations: 1 ns, 1.5 us, 4 ms, 15 s, 9 min
Steps == {U(0, 1), U(0, 1500), U(4, 0), U(15000, 0), U(540000, 0)}

\* clock advance between the two Instant::now() reads of new()
Jitter == {Zero, U(0, 1)}

\* arbitrary origin of the monotonic clock
Origins == {Zero, U(7, 123456)}

-----------------------------------------------------------------------------
(* TimeElapsed handle *)

NoOut == [op |-> "none", name |-> "", msg |-> "", at |-> Zero, nanos |-> Zero,
          units |-> <<>>, times |-> <<>>, ret |-> Zero]

\* self.<instant>.elapsed().as_nanos(), the clock being read now
elapsed(instant) == Sub(clock, instant)

\* the line print_message writes: (name) msg -> time unit
print_message(msg, nanos) ==
    LET unit == get_unit_of_measurement(nanos)
        time == nanos_to_unit_of_msr(nanos, unit)
    IN  [NoOut EXCEPT !.name = name, !.msg = msg, !.at = clock, !.nanos = nanos,
                      !.units = <<unit>>, !.times = <<time>>]

Init ==
    /\ clock \in Origins
    /\ state = "NotStarted"
    /\ name = ""
    /\ start_timestamp = Zero
    /\ last_timestamp = Zero
    /\ out = NoOut
    /\ reference = Zero
    /\ ticks = 0

\* the environment: the monotonic clock moves forward
Tick ==
    /\ ticks < MaxTicks
    /\ \E d \in Steps : clock' = Add(clock, d)
    /\ ticks' = ticks + 1
    /\ UNCHANGED <<state, name, start_timestamp, last_timestamp, out, reference>>

\* faulty variant: last_timestamp read before start_timestamp
new_last_first ==
    /\ state = "NotStarted"
    /\ \E n \in Names, j \in Jitter :
         /\ name' = n
         /\ last_timestamp' = clock
         /\ reference' = clock
         /\ clock' = Add(clock, j)
         /\ start_timestamp' = clock'
         /\ out' = [NoOut EXCEPT !.op = "start", !.name = n, !.at = clock]
    /\ state' = "Active"
    /\ UNCHANGED ticks

\* start(name) -> TimeElapsed::new(name): two clock reads, in field order
new ==
    /\ state = "NotStarted"
    /\ \E n \in Names, j \in Jitter :
         /\ name' = n
         /\ start_timestamp' = clock
         /\ clock' = Add(clock, j)
         /\ last_timestamp' = clock'
         /\ reference' = clock'
         /\ out' = [NoOut EXCEPT !.op = "start", !.name = n, !.at = clock]
    /\ state' = "Active"
    /\ UNCHANGED ticks

\* faulty variant: the reset lands on start_timestamp
timestamp_resets_start ==
    /\ state = "Active"
    /\ start_timestamp' = clock
    /\ reference' = clock
    /\ out' = [NoOut EXCEPT !.op = "timestamp", !.at = clock, !.ret = start_timestamp']
    /\ UNCHANGED <<clock, state, name, last_timestamp, ticks>>

\* faulty variant: the previous timestamp is returned
timestamp_returns_previous ==
    /\ state = "Active"
    /\ last_timestamp' = clock
    /\ reference' = clock
    /\ out' = [NoOut EXCEPT !.op = "timestamp", !.at = clock, !.ret = last_timestamp]
    /\ UNCHANGED <<clock, state, name, start_timestamp, ticks>>

timestamp ==
    /\ state = "Active"
    /\ last_timestamp' = clock
    /\ reference' = clock
    /\ out' = [NoOut EXCEPT !.op = "timestamp", !.at = clock, !.ret = last_timestamp']
    /\ UNCHANGED <<clock, state, name, start_timestamp, ticks>>

\* faulty variant: log() also resets last_timestamp
log_resetting ==
    /\ state = "Active"
    /\ \E msg \in Msgs :
         LET nanos == elapsed(last_timestamp)
         IN  out' = [print_message(msg, nanos) EXCEPT !.op = "log"]
    /\ last_timestamp' = clock
    /\ UNCHANGED <<clock, state, name, start_timestamp, reference, ticks>>

log ==
    /\ state = "Active"
    /\ \E msg \in Msgs :
         LET nanos == elapsed(last_timestamp)
         IN  out' = [print_message(msg, nanos) EXCEPT !.op = "log"]
    /\ UNCHANGED <<clock, state, name, start_timestamp, last_timestamp, reference, ticks>>

log_overall ==
    /\ state = "Active"
    /\ \E msg \in Msgs :
         LET nanos == elapsed(start_timestamp)
         IN  out' = [print_message(msg, nanos) EXCEPT !.op = "log_overall"]
    /\ UNCHANGED <<clock, state, name, start_timestamp, last_timestamp, reference, ticks>>

\* faulty variant: end(&self), the handle stays usable
end_borrowing ==
    /\ state = "Active"
    /\ LET nanos == elapsed(start_timestamp)
           units == get_units_of_measurement(nanos)
           times == nanos_to_units_of_msr(nanos, units[1])
       IN  out' = [NoOut EXCEPT !.op = "end", !.name = name, !.at = clock,
                                !.nanos = nanos, !.units = units, !.times = times]
    /\ UNCHANGED <<clock, state, name, start_timestamp, last_timestamp, reference, ticks>>

\* end(self): consumes the handle
end ==
    /\ state = "Active"
    /\ LET nanos == elapsed(start_timestamp)
           units == get_units_of_measurement(nanos)
           times == nanos_to_units_of_msr(nanos, units[1])
       IN  out' = [NoOut EXCEPT !.op = "end", !.name = name, !.at = clock,
                                !.nanos = nanos, !.units = units, !.times = times]
    /\ state' = "Ended"
    /\ UNCHANGED <<clock, name, start_timestamp, last_timestamp, reference, ticks>>

Next == Tick \/ new \/ timestamp \/ log \/ log_overall \/ end

Spec == Init /\ [][Next]_vars

-----------------------------------------------------------------------------
(* The formatter on its own: an Active handle created at the clock's origin, *)
(* read after the clock has advanced by a chosen nanosecond count.           *)

\* the thresholds of get_unit_of_measurement and the factors of nanos_to_unit_of_msr
Boundaries ==
    {U(0, 1000), U(1, 0), U(4, 0), U(1000, 0), U(15000, 0), U(60000, 0),
     U(300000, 0), U(540000, 0), U(3600000, 0), U(7200000, 0)}

Inputs ==
    {Zero, U(0, 1500), U(202, 271000), U(2, 103999)}
        \cup {Add(b, U(0, k)) : b \in Boundaries, k \in 0..MaxOffset}
        \cup {Sub(b, U(0, k)) : b \in Boundaries, k \in 1..(MaxOffset + 1)}

InitFmt ==
    /\ clock \in Inputs
    /\ state = "Active"
    /\ name \in Names
    /\ start_timestamp = Zero
    /\ last_timestamp = Zero
    /\ out = [NoOut EXCEPT !.op = "start", !.name = name]
    /\ reference = Zero
    /\ ticks = 0

NextFmt == log \/ log_overall \/ end

SpecFmt == InitFmt /\ [][NextFmt]_vars

-----------------------------------------------------------------------------
(* Properties *)

Printed == {"log", "log_overall", "end"}

\* a * k for a small k
Mul(a, k) ==
    LET p == a[2] * k
    IN  U(a[1] * k + (p \div Base), p % Base)

\* the nanosecond factor of a unit; "ns" and anything else is 1
Factor(u) ==
    CASE u = "us"  -> U(0, 1000)
      [] u = "ms"  -> U(1, 0)
      [] u = "s"   -> U(1000, 0)
      [] u = "min" -> U(60000, 0)
      [] u = "hrs" -> U(3600000, 0)
      [] OTHER     -> U(0, 1)

\* C1: the unit printed for n nanoseconds is us below 4_000_000, ms below
\* 15_000_000_000, s below 300_000_000_000, min below 540_000_000_000 and
\* hrs from there on; in particular 0 and 3_999_999 give us, 4_000_000 gives ms.
C1_UnitSelection ==
    /\ out.op \in Printed =>
         out.units[1] = (IF Lt(out.nanos, U(4, 0)) THEN "us"
                         ELSE IF Lt(out.nanos, U(15000, 0)) THEN "ms"
                         ELSE IF Lt(out.nanos, U(300000, 0)) THEN "s"
                         ELSE IF Lt(out.nanos, U(540000, 0)) THEN "min"
                         ELSE "hrs")
    /\ get_unit_of_measurement(Zero) = "us"
    /\ get_unit_of_measurement(U(3, 999999)) = "us"
    /\ get_unit_of_measurement(U(4, 0)) = "ms"

C1_Witness ==
    /\ out.op = "log"
    /\ out.nanos = U(3, 999999)
    /\ out.units = <<"us">>

\* C2: once the handle exists, last_timestamp >= start_timestamp.
C2_LastNotBeforeStart ==
    state # "NotStarted" => Leq(start_timestamp, last_timestamp)

C2_Witness ==
    /\ state = "Active"
    /\ out.op = "timestamp"
    /\ Lt(start_timestamp, last_timestamp)

\* C3: right after start(name) returns, last_timestamp equals start_timestamp.
C3_CreatedEqual ==
    out.op = "start" => last_timestamp = start_timestamp

\* C4: while the handle is Active, the delta log_overall() would report is >=
\* the delta log() would report, and both are >= 0.
C4_OverallGeqLog ==
    state = "Active" =>
        /\ Leq(elapsed(last_timestamp), elapsed(start_timestamp))
        /\ Leq(Zero, elapsed(last_timestamp))
        /\ Leq(Zero, elapsed(start_timestamp))

C4_Witness ==
    /\ state = "Active"
    /\ Lt(Zero, elapsed(last_timestamp))
    /\ Lt(elapsed(last_timestamp), elapsed(start_timestamp))

\* C5: the delta log() prints is the clock it read minus the instant captured
\* by the most recent timestamp() (or by creation); log() and log_overall()
\* in between do not move that reference.
C5_LogFromLastCapture ==
    out.op = "log" => out.nanos = Sub(out.at, reference)

C5_Witness ==
    /\ out.op = "log"
    /\ Lt(U(0, 1), Sub(reference, start_timestamp))
    /\ Lt(Zero, out.nanos)

\* C6: log() and log_overall() leave name, start_timestamp and last_timestamp
\* unchanged; timestamp() sets last_timestamp to the clock value it read and
\* returns, and leaves name and start_timestamp unchanged.
C6_Frame ==
    [][state = "Active" =>
          /\ name' = name
          /\ start_timestamp' = start_timestamp
          /\ (out'.op \in {"log", "log_overall"} => last_timestamp' = last_timestamp)
          /\ (out'.op = "timestamp" =>
                 /\ last_timestamp' = out'.ret
                 /\ out'.ret = out'.at)]_vars

C6_Witness ==
    /\ out.op \in {"log", "log_overall"}
    /\ last_timestamp # start_timestamp
    /\ out.at # last_timestamp
    /\ reference = last_timestamp

\* C7: start makes the handle Active; timestamp(), log() and log_overall()
\* keep it Active; end() makes it Ended; once Ended nothing about the handle
\* or its output changes again, so the finished line is its last output.
C7_Lifecycle ==
    [][/\ (state = "NotStarted" => state' \in {"NotStarted", "Active"})
       /\ (state = "Active" => state' \in {"Active", "Ended"})
       /\ (state = "Ended" =>
              UNCHANGED <<state, name, start_timestamp, last_timestamp, out>>)
       /\ (out'.op = "end" <=> state' = "Ended")
       /\ (out'.op \in {"start", "timestamp", "log", "log_overall"} => state' = "Active")
       /\ (out'.op = "none" <=> state' = "NotStarted")]_vars

C7_Witness ==
    /\ state = "Ended"
    /\ out.op = "end"
    /\ clock # out.at

\* C8: end() prints the pair [coarse, fine] that belongs to the single unit
\* selected for n, and the two values are n divided (truncating) by the
\* factor of the coarse and of the fine unit, as nanos_to_unit_of_msr gives.
C8_DualUnits ==
    out.op = "end" =>
        LET n == out.nanos
            u == get_unit_of_measurement(n)
        IN  /\ out.units = (CASE u = "us"  -> <<"us", "ns">>
                              [] u = "ms"  -> <<"ms", "us">>
                              [] u = "s"   -> <<"s", "ms">>
                              [] u = "min" -> <<"min", "s">>
                              [] u = "hrs" -> <<"hrs", "min">>)
            /\ out.times = <<nanos_to_unit_of_msr(n, out.units[1]),
                             nanos_to_unit_of_msr(n, out.units[2])>>
            /\ out.times = <<Div(n, Factor(out.units[1])), Div(n, Factor(out.units[2]))>>

C8_Witness ==
    /\ out.op = "end"
    /\ out.units = <<"min", "s">>
    /\ out.times[2] = U(0, 300)

\* C9: a unit of ms, s, min or hrs is never printed with the value 0.
C9_CoarseValueNonZero ==
    (out.op \in Printed /\ out.units[1] \in {"ms", "s", "min", "hrs"})
        => out.times[1] # Zero

\* C10: for the two values end() prints, with k = 60 for min/s and hrs/min
\* and k = 1000 otherwise, coarse = fine div k, that is
\* coarse * k <= fine < (coarse + 1) * k.
C10_DualValuesConsistent ==
    out.op = "end" =>
        LET k      == IF out.units[1] \in {"min", "hrs"} THEN 60 ELSE 1000
            coarse == out.times[1]
            fine   == out.times[2]
        IN  /\ coarse = Div(fine, U(0, k))
            /\ Leq(Mul(coarse, k), fine)
            /\ Lt(fine, Mul(Add(coarse, U(0, 1)), k))

C10_Witness ==
    /\ out.op = "end"
    /\ out.units = <<"us", "ns">>
    /\ out.times = <<U(0, 1), U(0, 1500)>>

====
